---- MODULE Spec2Model ----
(***************************************************************************)
(* A model of the Apriori class of src/apriori.py: the construction of the *)
(* transactions from a table, the level-wise search for the frequent       *)
(* itemsets and the derivation of the association rules.                   *)
(*                                                                         *)
(* Strings are sequences of one-character strings.  A cell or a column     *)
(* label is a tagged value, <<"int", n>> or <<"str", s>>.  A float that    *)
(* the program computes as a quotient of two counts is the reduced         *)
(* fraction <<numerator, denominator>>.  None is the record None, a dict   *)
(* d is Dict(d) (a function from its keys) and a list l is List(l).        *)
(***************************************************************************)
EXTENDS Integers, Sequences, FiniteSets, TLC

VARIABLES
    df,                 \* the table given to __init__: [columns, values]
    min_support,        \* self.min_support
    min_confidence,     \* self.min_confidence
    transactions,       \* self.transactions
    one_item_sets,      \* self.one_item_sets
    frequent_itemsets,  \* self.frequent_itemsets
    association_rules,  \* self.association_rules
    pc,                 \* "idle", or "loop" inside generate_frequent_itemsets
    itemsets,           \* the local itemsets of generate_frequent_itemsets
    k,                  \* the local k of generate_frequent_itemsets
    last,               \* the last call that returned or raised
    rules_len,          \* itemsets_len of the call that stored association_rules
    first_table,        \* history: the table of the first mining run
    first_rules         \* history: per itemsets_len, the first derived list

vars == <<df, min_support, min_confidence, transactions, one_item_sets,
          frequent_itemsets, association_rules, pc, itemsets, k, last,
          rules_len, first_table, first_rules>>

-----------------------------------------------------------------------------
(* Bounds of the model. *)

NumCols == 3
NumVals == 2
MaxRows == 2
MaxStrLen == 2

-----------------------------------------------------------------------------
(* Values. *)

None == [tag |-> "None"]
Dict(d) == [tag |-> "dict", d |-> d]
List(l) == [tag |-> "list", l |-> l]
EmptyDict == [x \in {} |-> <<0, 1>>]

IntV(n) == <<"int", n>>
StrV(s) == <<"str", s>>

Digits == <<"0", "1", "2", "3", "4", "5", "6", "7", "8", "9">>

RECURSIVE Decimal(_)
Decimal(n) ==
    IF n < 10 THEN <<Digits[n + 1]>>
    ELSE Decimal(n \div 10) \o <<Digits[(n % 10) + 1]>>

\* '%s' % v
ToStr(v) == IF v[1] = "int" THEN Decimal(v[2]) ELSE v[2]

RECURSIVE GCD(_, _)
GCD(a, b) == IF b = 0 THEN a ELSE GCD(b, a % b)

\* float(n) / d, for n >= 0 and d > 0
Quot(n, d) == LET g == GCD(n, d) IN <<n \div g, d \div g>>

\* a >= b
Geq(a, b) == a[1] * b[2] >= b[1] * a[2]

RECURSIVE SetToSeq(_)
SetToSeq(S) ==
    IF S = {} THEN <<>>
    ELSE LET x == CHOOSE y \in S : TRUE IN <<x>> \o SetToSeq(S \ {x})

RECURSIVE Flatten(_)
Flatten(ss) == IF ss = <<>> THEN <<>> ELSE Head(ss) \o Flatten(Tail(ss))

Range(s) == {s[i] : i \in DOMAIN s}

RECURSIVE SortedSeq(_)
SortedSeq(S) ==
    IF S = {} THEN <<>>
    ELSE LET m == CHOOSE x \in S : \A y \in S : x <= y
         IN  <<m>> \o SortedSeq(S \ {m})

Min(S) == CHOOSE x \in S : \A y \in S : x <= y
Max(S) == CHOOSE x \in S : \A y \in S : x >= y

\* the default argument itemsets_len=None, as a tagged value
NoneV == <<"None", 0>>

-----------------------------------------------------------------------------
(* _construct_transactions *)

\* '%s_%s' % (col_, row_)
Format(col_, row_) == ToStr(col_) \o <<"_">> \o ToStr(row_)

\* frozenset([... for row_, col_ in zip(row, cols)])
Transaction(row, cols) ==
    {Format(cols[i], row[i]) : i \in 1..Min({Len(row), Len(cols)})}

Transactions(d) ==
    [r \in 1..Len(d.values) |-> Transaction(d.values[r], d.columns)]

OneItemSets(d) == {{item} : item \in UNION Range(Transactions(d))}

-----------------------------------------------------------------------------
(* _generate_candidates, _frequent_itemsets_supports, _generate_subsets *)

generate_candidates(its, kk) ==
    {c \in {x \cup y : x \in its, y \in its} : Cardinality(c) = kk}

\* sum(1 for row in self.transactions if item.issubset(row))
Count(item) ==
    Cardinality({r \in DOMAIN transactions : item \subseteq transactions[r]})

\* float(...) / transactions_len
Support(item) == Quot(Count(item), Len(transactions))

\* the comparison made exclusive
MeetsSupport_Strict(support) == ~Geq(min_support, support)

\* if support >= self.min_support
MeetsSupport(support) == Geq(support, min_support)

frequent_itemsets_supports(its) ==
    [item \in {i \in its : MeetsSupport(Support(i))} |-> Support(item)]

\* dict.update
Update(d, e) ==
    [x \in (DOMAIN d) \cup (DOMAIN e) |-> IF x \in DOMAIN e THEN e[x] ELSE d[x]]

Combinations(S, i) == {x \in SUBSET S : Cardinality(x) = i}

\* the range taken one too far: range(1, len(itemset) + 1)
SubsetSizes_Inclusive(itemset) == 1..Cardinality(itemset)

\* range(1, len(itemset))
SubsetSizes(itemset) == 1..(Cardinality(itemset) - 1)

generate_subsets(itemset) ==
    LET sizes == SortedSeq(SubsetSizes(itemset))
    IN  Flatten([j \in DOMAIN sizes |->
                   SetToSeq(Combinations(itemset, sizes[j]))])

-----------------------------------------------------------------------------
(* generate_association_rules *)

\* the test written as: self.frequent_itemsets is None
NoItemsets_OnlyNone(table) == table.tag = "None"

\* the test written as a comparison with the empty dict
NoItemsets_OnlyEmpty(table) ==
    IF table.tag = "None" THEN FALSE ELSE DOMAIN table.d = {}

\* not self.frequent_itemsets
NoItemsets(table) ==
    IF table.tag = "None" THEN TRUE ELSE DOMAIN table.d = {}

\* if itemsets_len
Given(itemsets_len) == itemsets_len[1] # "None" /\ itemsets_len[2] # 0

\* the two length checks that skip an itemset
Skipped(itemset, itemsets_len) ==
    \/ Cardinality(itemset) < 2
    \/ Given(itemsets_len) /\ Cardinality(itemset) # itemsets_len[2]

\* the keys of a dict in the order of their insertion: level by level
OrderedKeys(d) ==
    IF DOMAIN d = {} THEN <<>>
    ELSE LET top == Max({Cardinality(key) : key \in DOMAIN d})
         IN  Flatten([s \in 1..(top + 1) |->
                        SetToSeq({key \in DOMAIN d : Cardinality(key) = s - 1})])

\* the pairs (itemset, X) in the order the two loops visit them
Visits(d, itemsets_len) ==
    LET keys == OrderedKeys(d)
    IN  Flatten([j \in DOMAIN keys |->
                   IF Skipped(keys[j], itemsets_len) THEN <<>>
                   ELSE LET subs == generate_subsets(keys[j])
                        IN  [i \in DOMAIN subs |-> <<keys[j], subs[i]>>]])

\* support / self.frequent_itemsets[X]
Confidence(support, sx) == Quot(support[1] * sx[2], support[2] * sx[1])

\* the comparison made exclusive
MeetsConfidence_Strict(confidence) == ~Geq(min_confidence, confidence)

\* if confidence >= self.min_confidence
MeetsConfidence(confidence) == Geq(confidence, min_confidence)

\* the rule appended for the visit v
Rule(d, v) == <<v[2], v[1] \ v[2], Confidence(d[v[1]], d[v[2]])>>

\* the two loops: the list built, and the exception that ended them if any
DeriveRules(d, itemsets_len) ==
    LET vs == Visits(d, itemsets_len)
        miss == {i \in DOMAIN vs : vs[i][2] \notin DOMAIN d}
        zero == {i \in (DOMAIN vs) \ miss : d[vs[i][2]][1] = 0}
        stop == IF miss \cup zero = {} THEN Len(vs) + 1 ELSE Min(miss \cup zero)
        done == SubSeq(vs, 1, stop - 1)
        kept(v) == MeetsConfidence(Confidence(d[v[1]], d[v[2]]))
        chosen == SelectSeq(done, kept)
    IN  [rules  |-> [i \in DOMAIN chosen |-> Rule(d, chosen[i])],
         raised |-> IF miss \cup zero = {} THEN "none"
                    ELSE IF stop \in miss THEN "KeyError"
                    ELSE "ZeroDivisionError"]

\* the list left as it was instead of being set to []
Stored_Appending(old, rules) ==
    List((IF old.tag = "None" THEN <<>> ELSE old.l) \o rules)

\* self.association_rules = [] and the appends that follow
Stored(old, rules) == List(rules)

Returned(op, arg, raised) == [op |-> op, arg |-> arg, raised |-> raised]

GenerateAssociationRules(itemsets_len) ==
    /\ pc = "idle"
    /\ IF NoItemsets(frequent_itemsets)
       THEN /\ last' = Returned("generate_association_rules", itemsets_len,
                                "ValueError")
            /\ UNCHANGED <<association_rules, rules_len>>
       ELSE IF frequent_itemsets.tag = "None"
       THEN \* self.frequent_itemsets.items() of None, after the list is reset
            /\ association_rules' = Stored(association_rules, <<>>)
            /\ rules_len' = itemsets_len
            /\ last' = Returned("generate_association_rules", itemsets_len,
                                "AttributeError")
       ELSE LET r == DeriveRules(frequent_itemsets.d, itemsets_len)
            IN  /\ association_rules' = Stored(association_rules, r.rules)
                /\ rules_len' = itemsets_len
                /\ last' = Returned("generate_association_rules", itemsets_len,
                                    r.raised)
    /\ UNCHANGED <<df, min_support, min_confidence, transactions,
                   one_item_sets, frequent_itemsets, pc, itemsets, k>>

-----------------------------------------------------------------------------
(* generate_frequent_itemsets *)

\* lines 46-50: the table is rebuilt from the frequent 1-itemsets
CallGenerateFrequentItemsets ==
    /\ pc = "idle"
    /\ LET level == frequent_itemsets_supports(one_item_sets)
       IN  /\ frequent_itemsets' = Dict(Update(EmptyDict, level))
           /\ itemsets' = level
    /\ k' = 2
    /\ pc' = "loop"
    /\ UNCHANGED <<df, min_support, min_confidence, transactions,
                   one_item_sets, association_rules, last, rules_len>>

\* the table replaced by the level instead of merged with it
Merge_Replace(table, level) == Dict(level)

\* self.frequent_itemsets.update(itemsets)
Merge(table, level) == Dict(Update(table.d, level))

\* k += 1 left out
Advance_Stuck(kk) == kk

\* k += 1
Advance(kk) == kk + 1

\* lines 52-60: one turn of the while loop
LoopIteration ==
    /\ pc = "loop"
    /\ LET candidates == generate_candidates(DOMAIN itemsets, k)
           level == frequent_itemsets_supports(candidates)
       IN  IF DOMAIN level = {}
           THEN /\ pc' = "idle"
                /\ itemsets' = EmptyDict
                /\ k' = 0
                /\ last' = Returned("generate_frequent_itemsets", NoneV, "none")
                /\ UNCHANGED frequent_itemsets
           ELSE /\ frequent_itemsets' = Merge(frequent_itemsets, level)
                /\ itemsets' = level
                /\ k' = Advance(k)
                /\ UNCHANGED <<pc, last>>
    /\ UNCHANGED <<df, min_support, min_confidence, transactions,
                   one_item_sets, association_rules, rules_len>>

-----------------------------------------------------------------------------
(* The inputs and the specifications. *)

Cells == {IntV(v) : v \in 0..(NumVals - 1)}
Columns == [i \in 1..NumCols |-> IntV(i)]

Tables ==
    [columns : {Columns},
     values : UNION {[1..n -> [1..NumCols -> Cells]] : n \in 0..MaxRows}]

MinSupports == {<<1, 3>>, <<1, 2>>, <<2, 3>>, <<1, 1>>}
MinConfidences == {<<0, 1>>, <<1, 2>>, <<1, 1>>, <<3, 2>>}

Lens == {NoneV} \cup {IntV(n) : n \in 0..NumCols}

\* the state after __init__
Constructed(d, ms, mc) ==
    /\ df = d
    /\ min_support = ms
    /\ min_confidence = mc
    /\ transactions = Transactions(d)
    /\ one_item_sets = OneItemSets(d)
    /\ frequent_itemsets = None
    /\ association_rules = None
    /\ pc = "idle"
    /\ itemsets = EmptyDict
    /\ k = 0
    /\ last = Returned("__init__", NoneV, "none")
    /\ rules_len = NoneV
    /\ first_table = None
    /\ first_rules = [l \in Lens |-> None]

Init ==
    \E d \in Tables, ms \in MinSupports, mc \in MinConfidences :
        Constructed(d, ms, mc)

\* the history variables stay as they are
Untracked == UNCHANGED <<first_table, first_rules>>

\* the history variables record the first table a mining run returns and,
\* per itemsets_len, the first list a derivation that returned has stored
Tracked ==
    /\ first_table' =
         IF pc = "loop" /\ pc' = "idle" /\ first_table = None
         THEN frequent_itemsets'
         ELSE first_table
    /\ first_rules' =
         IF /\ pc = "idle" /\ pc' = "idle"
            /\ last'.raised = "none"
            /\ first_rules[last'.arg] = None
         THEN [first_rules EXCEPT ![last'.arg] = association_rules']
         ELSE first_rules

Next ==
    \/ CallGenerateFrequentItemsets /\ Untracked
    \/ LoopIteration /\ Untracked
    \/ \E itemsets_len \in Lens :
           GenerateAssociationRules(itemsets_len) /\ Untracked

Spec == Init /\ [][Next]_vars

\* the loop of generate_frequent_itemsets runs on once entered; it never
\* reads min_confidence, which is held at one value here
InitFair ==
    \E d \in Tables, ms \in MinSupports : Constructed(d, ms, <<1, 2>>)

FairSpec == InitFair /\ [][Next]_vars /\ WF_vars(LoopIteration /\ Untracked)

IdemSupports == {<<1, 2>>, <<1, 1>>}
IdemConfidences == {<<1, 2>>}

InitIdem ==
    \E d \in Tables, ms \in IdemSupports, mc \in IdemConfidences :
        Constructed(d, ms, mc)

NextIdem ==
    \/ CallGenerateFrequentItemsets /\ Tracked
    \/ LoopIteration /\ Tracked
    \/ \E itemsets_len \in Lens :
           GenerateAssociationRules(itemsets_len) /\ Tracked

SpecIdem == InitIdem /\ [][NextIdem]_vars

\* tables whose labels and cells are strings that may hold the separator
Alphabet == {"1", "_"}
Strings == UNION {[1..n -> Alphabet] : n \in 1..MaxStrLen}
TokCells == {StrV(t) : t \in Strings} \cup {IntV(1)}
TokColumns == {StrV(t) : t \in Strings}
TokTables ==
    [columns : {c \in [1..2 -> TokColumns] : c[1] # c[2]},
     values : [1..1 -> [1..2 -> TokCells]]]

InitTok == \E d \in TokTables : Constructed(d, <<1, 1>>, <<1, 1>>)

SpecTok == InitTok /\ [][Next]_vars

-----------------------------------------------------------------------------
(* What the claims speak of, stated without the program's operators. *)

Items == UNION Range(transactions)

\* the number of transactions that are supersets of S
Supersets(S) ==
    Cardinality({r \in DOMAIN transactions : S \subseteq transactions[r]})

\* support(S) >= min_support, for a non-empty transaction list
Frequent(S) ==
    /\ Len(transactions) > 0
    /\ Supersets(S) * min_support[2] >= min_support[1] * Len(transactions)

FrequentSets == {S \in (SUBSET Items) \ {{}} : Frequent(S)}

\* the fraction q is the quotient n / d
IsQuotient(q, n, d) == d # 0 /\ q[2] # 0 /\ q[1] * d = n * q[2]

Mined == pc = "idle" /\ frequent_itemsets # None

Keys == DOMAIN frequent_itemsets.d

\* the last call was generate_association_rules and it has ended
Derived == pc = "idle" /\ last.op = "generate_association_rules"

\* support(I) / support(X) >= min_confidence
Confident(I, X) ==
    Supersets(I) * min_confidence[2] >= min_confidence[1] * Supersets(X)

\* the splits (X, I \ X) of the table itemsets of a size in sizes
Splits(sizes) ==
    {<<X, I \ X>> : <<I, X>> \in
        {v \in Keys \X ((SUBSET Items) \ {{}}) :
            /\ Cardinality(v[1]) \in sizes
            /\ Cardinality(v[1]) >= 2
            /\ v[2] \subseteq v[1] /\ v[2] # v[1]
            /\ Confident(v[1], v[2])}}

RuleList == association_rules.l

NoDuplicates(l) == Cardinality(Range(l)) = Len(l)

\* C1: when generate_frequent_itemsets has returned, the keys of the table
\* are exactly the non-empty itemsets whose support is at least min_support
\* (inclusive), each mapped to its support; the table of an empty
\* transaction list is empty.
C1_TableIsExactlyTheFrequentItemsets ==
    Mined =>
        /\ Keys = FrequentSets
        /\ \A S \in Keys :
               IsQuotient(frequent_itemsets.d[S], Supersets(S), Len(transactions))
        /\ (Len(transactions) = 0 => frequent_itemsets = Dict(EmptyDict))

C1_Witness ==
    /\ Mined
    /\ \E S \in Keys : Cardinality(S) = 3
    /\ \E S \in Keys : frequent_itemsets.d[S] = min_support
    /\ \E S \in (SUBSET Items) \ {{}} : S \notin Keys

C3_DerivingBeforeMiningRaises ==
    [][(pc = "idle" /\ pc' = "idle" /\ frequent_itemsets = None) =>
          /\ last'.op = "generate_association_rules"
          /\ last'.raised = "ValueError"
          /\ frequent_itemsets' = frequent_itemsets
          /\ association_rules' = association_rules]_vars

C3_Witness ==
    /\ Derived /\ last.raised = "ValueError"
    /\ frequent_itemsets = None
    /\ association_rules = None
    /\ Len(transactions) > 0

\* C4 (as claimed): after a mining run that produced an empty table,
\* generate_association_rules returns without raising and stores the empty
\* list.
C4_EmptyTableGivesNoRules ==
    (Derived /\ frequent_itemsets = Dict(EmptyDict)) =>
        /\ last.raised = "none"
        /\ association_rules = List(<<>>)

\* C4 (as amended): after a mining run that produced an empty table,
\* generate_association_rules raises ValueError, as it does before any mining
\* run, and no list of rules is stored.
C4_EmptyTableRaises ==
    (Derived /\ frequent_itemsets = Dict(EmptyDict)) =>
        /\ last.raised = "ValueError"
        /\ association_rules = None

C4_Witness ==
    /\ Derived /\ frequent_itemsets = Dict(EmptyDict)
    /\ last.raised = "ValueError"
    /\ Len(transactions) = 0

\* C5: the loop of generate_frequent_itemsets terminates: once entered, some
\* level yields no frequent itemsets and the call returns.
C5_MiningTerminates == (pc = "loop") ~> (pc = "idle")

C5_Witness ==
    /\ pc = "idle" /\ last.op = "generate_frequent_itemsets"
    /\ \E S \in Keys : Cardinality(S) = NumCols

\* C6: after every level's merge and in the final table, every non-empty
\* subset of a table itemset is a key of the table, and the lookup of
\* generate_association_rules never misses.
C6_TableIsDownwardClosed ==
    /\ frequent_itemsets # None =>
           \A I \in Keys : \A X \in (SUBSET I) \ {{}} : X \in Keys
    /\ last.raised # "KeyError"

C6_Witness ==
    /\ pc = "loop" /\ k = 4
    /\ \E I \in Keys : Cardinality(I) = 3
    /\ last.op = "generate_association_rules" /\ last.raised = "none"
    /\ \E r \in Range(RuleList) : Cardinality(r[1]) = 2

\* C7: every rule (X, Y, c) stored is well formed: X and Y are non-empty and
\* disjoint, their union is a key of the table, c is
\* support(X union Y) / support(X) and lies in (0, 1].
C7_RulesAreWellFormed ==
    (pc = "idle" /\ association_rules # None) =>
        \A r \in Range(RuleList) :
            /\ r[1] # {} /\ r[2] # {}
            /\ r[1] \cap r[2] = {}
            /\ frequent_itemsets # None /\ (r[1] \cup r[2]) \in Keys
            /\ IsQuotient(r[3], Supersets(r[1] \cup r[2]), Supersets(r[1]))
            /\ r[3][1] > 0 /\ r[3][2] > 0 /\ r[3][1] <= r[3][2]

C7_Witness ==
    /\ pc = "idle" /\ association_rules # None
    /\ \E r \in Range(RuleList) : r[3][1] < r[3][2]
    /\ \E r \in Range(RuleList) : r[3][1] = r[3][2]
    /\ \E r \in Range(RuleList) : Cardinality(r[2]) = 2
    /\ Geq(<<0, 1>>, min_confidence)

\* C8 (as claimed): with a target size n >= 0 passed as itemsets_len, every
\* stored rule comes from an itemset of size n, and the rules are those of
\* the unfiltered output whose itemset has size n.
C8_SizeFilterKeepsOnlyThatSize ==
    (Derived /\ last.raised = "none" /\ last.arg # NoneV) =>
        /\ \A r \in Range(RuleList) : Cardinality(r[1] \cup r[2]) = last.arg[2]
        /\ NoDuplicates(RuleList)
        /\ {<<r[1], r[2]>> : r \in Range(RuleList)} = Splits({last.arg[2]})

\* C9: after any sequence of calls, the table is the table of the first
\* mining run, the rules are set-equal to, and as many as, those of the
\* first derivation with the same itemsets_len, and transactions and
\* one_item_sets are as __init__ built them.
C9_CallsAreIdempotent ==
    pc = "idle" =>
        /\ frequent_itemsets # None => frequent_itemsets = first_table
        /\ association_rules # None =>
               /\ first_rules[rules_len] # None
               /\ Range(RuleList) = Range(first_rules[rules_len].l)
               /\ Len(RuleList) = Len(first_rules[rules_len].l)
               /\ NoDuplicates(RuleList)
        /\ transactions = Transactions(df)
        /\ one_item_sets = OneItemSets(df)

C9_Witness ==
    /\ pc = "idle" /\ last.op = "generate_frequent_itemsets"
    /\ association_rules # None /\ Len(RuleList) > 0
    /\ \E a \in Lens, b \in Lens :
           /\ first_rules[a] # None /\ first_rules[b] # None
           /\ first_rules[a] # first_rules[b]
           /\ first_rules[b] # List(<<>>)
           /\ rules_len = a

\* C10 (as claimed): distinct (column, value) pairs give distinct items, and
\* every transaction holds one item per column.
C10_FormatIsInjective ==
    /\ \A i \in DOMAIN df.columns, j \in DOMAIN df.columns :
       \A r \in DOMAIN df.values, q \in DOMAIN df.values :
           <<df.columns[i], df.values[r][i]>> # <<df.columns[j], df.values[q][j]>>
               => Format(df.columns[i], df.values[r][i])
                    # Format(df.columns[j], df.values[q][j])
    /\ \A r \in DOMAIN transactions :
           Cardinality(transactions[r]) = Len(df.columns)

====
